---- MODULE Spec2Model ----
(***************************************************************************)
(* WCAG 2.2 RAG: the segmenter (ingestion/parse_spec.py), the index        *)
(* builder (retrieval/build_index.py), the retriever                       *)
(* (retrieval/retrieve.py) and the two confidence gates (rag/spec_rag.py,  *)
(* rag/llm_rag.py).                                                        *)
(*                                                                         *)
(* A document is the sequence of its Tag elements in document order        *)
(* (the order of BeautifulSoup's find_all and next_elements); every        *)
(* element has a tag name, an id attribute, its parent (0: the soup) and   *)
(* the text it holds directly, a sequence of tokens.  A token of a text    *)
(* taken from the document is [n |-> element, k |-> token], so a text      *)
(* tells which element each of its parts comes from.                       *)
(*                                                                         *)
(* Python values of chunk fields are PyStr(v) or PyNone.                   *)
(***************************************************************************)
EXTENDS Integers, Sequences, FiniteSets, TLC

VARIABLES
    doc,        \* the raw document at RAW_SPEC_PATH (parsed tree)
    ordered,    \* parse_spec.main: the deduplicated (tag, sc_id, sc_title) list
    chunks,     \* parse_spec.main: the chunk dicts
    segPc,      \* parse_spec.main: "start" | "done"
    chunkFile,  \* the file at OUT_PATH / INPUT_PATH: Missing or a sequence of lines
    docs,       \* build_index.main: the list load_jsonl returned
    buildPc,    \* build_index.main: position
    store,      \* the persisted collection COLLECTION_NAME: Missing or its entries
    client,     \* one question being answered: position, inputs, collection handle
    resp,       \* what the answering call returned or raised
    prevIndex   \* history: the entries of the collection the running build deleted

vars == <<doc, ordered, chunks, segPc, chunkFile, docs, buildPc, store, client, resp,
          prevIndex>>

segVars == <<doc, ordered, chunks, segPc>>

-----------------------------------------------------------------------------
(* Bounds *)

MaxNodes == 3
MaxChunks == 2
MaxK == 3

-----------------------------------------------------------------------------
(* Python values *)

PyNone == <<"None">>
PyStr(v) == <<"str", v>>

\* a file or a collection that does not exist
Missing == [exists |-> FALSE, content |-> <<>>]
File(content) == [exists |-> TRUE, content |-> content]

-----------------------------------------------------------------------------
(* Documents *)

SC_PHRASE == "Success Criterion"
ScIds == {"1.2.3", "1.2.4"}
ReservedIds == {"5.2.1"}
DottedIds == ScIds \cup ReservedIds
LEVEL_TOKEN == "Level AA"
WORD == "word"

HeadingTags == {"h2", "h3", "h4", "h5", "dt"}
NavTags == {"nav", "header", "footer"}
BlockTags == {"p", "li", "dt", "dd", "blockquote"}

Node(tag, id, txt) == [tag |-> tag, id |-> id, txt |-> txt]

\* The elements the documents are made of: a top-level section heading, criterion
\* headings in the labeled form (one with an id of its own) and in the fallback
\* form, a heading of the reserved section, a term, and a paragraph.
NodeKinds ==
    { Node("h2", "", <<WORD>>),
      Node("h3", "sc-a", <<SC_PHRASE, "1.2.3", WORD>>),
      Node("h4", "", <<SC_PHRASE, "1.2.4", WORD>>),
      Node("h5", "", <<"1.2.3", WORD>>),
      Node("h3", "", <<"5.2.1", WORD>>),
      Node("dt", "", <<WORD>>),
      Node("p", "", <<LEVEL_TOKEN>>) }

RECURSIVE Ancestors(_, _)
\* the ancestors of element i of d (0, the soup, left out)
Ancestors(d, i) ==
    IF i = 0 \/ d[i].parent = 0 THEN {}
    ELSE {d[i].parent} \cup Ancestors(d, d[i].parent)

\* the parent of every element of a document of n elements: an element hangs
\* under the soup, under the element before it or under an ancestor of that one
ParentVectors(n) ==
    { pv \in [1..n -> 0..MaxNodes] :
        \A i \in 1..n :
            /\ pv[i] < i
            /\ pv[i] \in {0, i - 1} \cup Ancestors([j \in 1..n |-> [parent |-> pv[j]]], i - 1) }

DocOf(n, kinds, pv) ==
    [i \in 1..n |-> [tag |-> kinds[i].tag, id |-> kinds[i].id, txt |-> kinds[i].txt,
                     parent |-> pv[i]]]

-----------------------------------------------------------------------------
(* ingestion/parse_spec.py *)

\* Tag.get_text(" ", strip=True): the strings of the element and of its
\* descendants, in document order
RECURSIVE TextFrom(_, _, _)
TextFrom(d, i, j) ==
    IF j > Len(d) THEN <<>>
    ELSE (IF j = i \/ i \in Ancestors(d, j)
          THEN [t \in 1..Len(d[j].txt) |-> [n |-> j, k |-> d[j].txt[t]]]
          ELSE <<>>) \o TextFrom(d, i, j + 1)

get_text(d, i) == TextFrom(d, i, i)

\* position of the first dotted identifier of a text (SC_ANYWHERE_RE.search), 0: none
RECURSIVE FirstId(_, _)
FirstId(txt, p) ==
    IF p > Len(txt) THEN 0
    ELSE IF txt[p].k \in DottedIds THEN p
    ELSE FirstId(txt, p + 1)

startswith5(sc_id) == sc_id \in ReservedIds

\* parse_sc_from_text returns None or the tuple (sc_id, title)
NoMatch == <<>>

\* the labeled form first (SC_LABEL_RE.match: the phrase, an identifier, a
\* title), then the identifier anywhere with what follows it as the title
parse_sc_from_text_keep5(txt) ==
    IF Len(txt) >= 3 /\ txt[1].k = SC_PHRASE /\ txt[2].k \in DottedIds
    THEN <<txt[2].k, SubSeq(txt, 3, Len(txt))>>
    ELSE LET p == FirstId(txt, 1) IN
         IF p = 0 THEN NoMatch
         ELSE IF SubSeq(txt, p + 1, Len(txt)) # <<>>
              THEN <<txt[p].k, SubSeq(txt, p + 1, Len(txt))>>
              ELSE NoMatch

parse_sc_from_text(txt) ==
    IF Len(txt) >= 3 /\ txt[1].k = SC_PHRASE /\ txt[2].k \in DottedIds
    THEN <<txt[2].k, SubSeq(txt, 3, Len(txt))>>
    ELSE LET p == FirstId(txt, 1) IN
         IF p = 0 THEN NoMatch
         ELSE IF startswith5(txt[p].k) THEN NoMatch
         ELSE IF SubSeq(txt, p + 1, Len(txt)) # <<>>
              THEN <<txt[p].k, SubSeq(txt, p + 1, Len(txt))>>
              ELSE NoMatch

is_sc_node(d, i) ==
    IF d[i].tag \in HeadingTags THEN parse_sc_from_text(get_text(d, i)) ELSE NoMatch

is_major_section_heading(d, i) == d[i].tag = "h2"

\* the first element after i at which the loop of collect_until_next_sc breaks
\* (Len(d) + 1: it runs to the end of the document)
RECURSIVE StopAt(_, _)
StopAt(d, j) ==
    IF j > Len(d) THEN j
    ELSE IF is_sc_node(d, j) # NoMatch \/ is_major_section_heading(d, j) THEN j
    ELSE StopAt(d, j + 1)

RECURSIVE Collect(_, _, _)
Collect(d, j, stop) ==
    IF j >= stop THEN <<>>
    ELSE (IF d[j].tag \in NavTags THEN <<>>
          ELSE IF d[j].tag \in BlockTags THEN get_text(d, j)
          ELSE <<>>) \o Collect(d, j + 1, stop)

\* normalize_text changes white space only, which a token text does not hold
normalize_text(txt) == txt

collect_until_next_sc(d, i) ==
    normalize_text(get_text(d, i) \o Collect(d, i + 1, StopAt(d, i + 1)))

RECURSIVE FirstLevel(_, _)
FirstLevel(txt, p) ==
    IF p > Len(txt) THEN 0
    ELSE IF txt[p].k = LEVEL_TOKEN THEN p
    ELSE FirstLevel(txt, p + 1)

infer_level(txt) == IF FirstLevel(txt, 1) = 0 THEN PyNone ELSE PyStr("AA")

anchor_for_parent_first(d, i) ==
    IF d[i].parent # 0 /\ d[d[i].parent].id # "" THEN PyStr(d[d[i].parent].id)
    ELSE IF d[i].id # "" THEN PyStr(d[i].id)
    ELSE PyNone

anchor_for(d, i) ==
    IF d[i].id # "" THEN PyStr(d[i].id)
    ELSE IF d[i].parent # 0 /\ d[d[i].parent].id # "" THEN PyStr(d[d[i].parent].id)
    ELSE PyNone

BASE_URL == "https://www.w3.org/TR/WCAG22/"

UrlFor(anchor_id) ==
    IF anchor_id # PyNone THEN PyStr(<<BASE_URL, "#", anchor_id[2]>>) ELSE PyStr(<<BASE_URL>>)

\* main, lines 103-108: the heading candidates that parse, in document order
RECURSIVE ScNodes(_, _)
ScNodes(d, i) ==
    IF i > Len(d) THEN <<>>
    ELSE LET parsed == is_sc_node(d, i) IN
         (IF parsed # NoMatch
          THEN <<[tag |-> i, sc_id |-> parsed[1], sc_title |-> parsed[2]]>>
          ELSE <<>>) \o ScNodes(d, i + 1)

\* main, lines 110-117: deduplicate by sc_id while preserving order
Dedup_no_seen(nodes, seen) == nodes

RECURSIVE Dedup_keep_last(_, _)
Dedup_keep_last(nodes, seen) ==
    IF nodes = <<>> THEN <<>>
    ELSE IF \E x \in 2..Len(nodes) : nodes[x].sc_id = Head(nodes).sc_id
         THEN Dedup_keep_last(Tail(nodes), seen)
         ELSE <<Head(nodes)>> \o Dedup_keep_last(Tail(nodes), seen)

RECURSIVE Dedup(_, _)
Dedup(nodes, seen) ==
    IF nodes = <<>> THEN <<>>
    ELSE IF Head(nodes).sc_id \in seen THEN Dedup(Tail(nodes), seen)
    ELSE <<Head(nodes)>> \o Dedup(Tail(nodes), seen \cup {Head(nodes).sc_id})

\* main, lines 124-141
MakeChunk(d, o) ==
    LET text == collect_until_next_sc(d, o.tag) IN
    [ doc_set     |-> PyStr("wcag22"),
      source      |-> PyStr("wcag_spec"),
      normativity |-> PyStr("normative"),
      version     |-> PyStr("2.2"),
      sc_id       |-> PyStr(o.sc_id),
      sc_title    |-> PyStr(o.sc_title),
      level       |-> infer_level(text),
      url         |-> UrlFor(anchor_for(d, o.tag)),
      text        |-> PyStr(text) ]

\* json.dumps(c) of one chunk: a line of the chunk file
json_dumps(c) ==
    [f \in DOMAIN c |-> IF c[f] = PyNone THEN <<"null">> ELSE <<"string", c[f][2]>>]

json_loads(line) ==
    [f \in DOMAIN line |-> IF line[f] = <<"null">> THEN PyNone ELSE PyStr(line[f][2])]

\* main of parse_spec.py: scan, deduplicate, build the chunks, write the file
ParseSpecMain ==
    /\ segPc = "start"
    /\ IF ~doc.exists
       THEN UNCHANGED <<ordered, chunks, chunkFile>>
       ELSE LET ord == Dedup(ScNodes(doc.content, 1), {})
                cs == [x \in 1..Len(ord) |-> MakeChunk(doc.content, ord[x])]
            IN /\ ordered' = ord
               /\ chunks' = cs
               /\ chunkFile' = File([x \in 1..Len(cs) |-> json_dumps(cs[x])])
    /\ segPc' = "done"
    /\ UNCHANGED <<doc, docs, buildPc, store, client, resp, prevIndex>>

-----------------------------------------------------------------------------
(* retrieval/build_index.py *)

load_jsonl(file) == [x \in 1..Len(file) |-> json_loads(file[x])]

BuildLoad_reset_first ==
    /\ buildPc = "idle"
    /\ store' = Missing
    /\ IF ~chunkFile.exists
       THEN /\ buildPc' = "failed"
            /\ docs' = <<>>
       ELSE /\ buildPc' = "loaded"
            /\ docs' = <<>>
    /\ UNCHANGED <<segVars, chunkFile, client, resp, prevIndex>>

\* main, lines 24-33: the input check and load_jsonl
BuildLoad ==
    /\ buildPc = "idle"
    /\ IF ~chunkFile.exists
       THEN /\ buildPc' = "failed"
            /\ docs' = <<>>
       ELSE /\ buildPc' = "loaded"
            /\ docs' = load_jsonl(chunkFile.content)
    /\ UNCHANGED <<segVars, chunkFile, store, client, resp, prevIndex>>

\* the chunk files of the index specification: what the segmenter wrote for
\* some document, chunks of distinct sc_id in document order
IndexChunk(sc_id, title, level, text) ==
    [ doc_set     |-> PyStr("wcag22"),
      source      |-> PyStr("wcag_spec"),
      normativity |-> PyStr("normative"),
      version     |-> PyStr("2.2"),
      sc_id       |-> PyStr(sc_id),
      sc_title    |-> PyStr(title),
      level       |-> level,
      url         |-> PyStr(<<BASE_URL, "#", title>>),
      text        |-> PyStr(text) ]

ChunkUniverse ==
    << IndexChunk("1.2.3", "captions", PyStr("A"), "text A"),
       IndexChunk("1.2.3", "captions-live", PyNone, "text A2"),
       IndexChunk("1.2.4", "audio", PyNone, "text B"),
       IndexChunk("2.4.11", "focus", PyStr("AA"), "text C") >>

\* the subsequences of ChunkUniverse of at most MaxChunks chunks, no sc_id twice
ChunkLists ==
    { cs \in UNION { [1..n -> 1..Len(ChunkUniverse)] : n \in 0..MaxChunks } :
        \A x, y \in 1..Len(cs) :
            x < y => /\ cs[x] < cs[y]
                     /\ ChunkUniverse[cs[x]].sc_id # ChunkUniverse[cs[y]].sc_id }

ChunkFileOf(cs) == File([x \in 1..Len(cs) |-> json_dumps(ChunkUniverse[cs[x]])])

\* parse_spec.main, lines 143-145, run again on another raw document: the chunk
\* file is rewritten.  The pipeline runs the segmenter before the build, not
\* during it.
WriteChunkFile ==
    /\ buildPc = "idle"
    /\ \E cs \in ChunkLists : chunkFile' = ChunkFileOf(cs)
    /\ UNCHANGED <<segVars, docs, buildPc, store, client, resp, prevIndex>>

\* the embedding provider (SentenceTransformer.encode, normalize_embeddings=True):
\* a deterministic function of the text; an embedding is a point of a line
EmbeddingTable ==
    [t \in {"", "q55", "q56", "text A", "text A2", "text B", "text C"} |->
        CASE t = "" -> 30
          [] t = "q55" -> 55
          [] t = "q56" -> 56
          [] t = "text A" -> 0
          [] t = "text A2" -> 120
          [] t = "text B" -> 15
          [] t = "text C" -> 200]

encode(text) == EmbeddingTable[text]

\* cosine distance of two embeddings ("hnsw:space": "cosine"), in hundredths
distance(a, b) == IF a < b THEN b - a ELSE a - b

\* d.get(f)
dget(d, f) == IF f \in DOMAIN d THEN d[f] ELSE PyNone

\* str(x)
str(x) == IF x = PyNone THEN PyStr("None") ELSE x

safe_str_plain(x) == str(x)

safe_str(x) == IF x = PyNone THEN PyStr("") ELSE str(x)

\* main, lines 60-71
metadata_of(d) ==
    [ sc_id       |-> safe_str(dget(d, "sc_id")),
      sc_title    |-> safe_str(dget(d, "sc_title")),
      level       |-> safe_str(dget(d, "level")),
      url         |-> safe_str(dget(d, "url")),
      source      |-> safe_str(dget(d, "source")),
      normativity |-> safe_str(dget(d, "normativity")),
      version     |-> safe_str(dget(d, "version")) ]

index_entries_skip_first(ds) ==
    [x \in 1..(Len(ds) - 1) |->
        [ id        |-> ds[x + 1].sc_id,
          document  |-> ds[x + 1].text,
          embedding |-> encode(ds[x + 1].text[2]),
          metadata  |-> metadata_of(ds[x + 1]) ]]

\* main, lines 49-77: texts, embeddings, ids and metadatas, as collection.add
\* takes them
index_entries(ds) ==
    [x \in 1..Len(ds) |->
        [ id        |-> ds[x].sc_id,
          document  |-> ds[x].text,
          embedding |-> encode(ds[x].text[2]),
          metadata  |-> metadata_of(ds[x]) ]]

\* main, lines 38-42: delete_collection, an error of it swallowed
BuildDelete ==
    /\ buildPc = "loaded"
    /\ buildPc' = "deleted"
    /\ store' = Missing
    \* a handle a reader got from get_collection names the deleted collection
    /\ client' = IF client.pc = "opened" THEN [client EXCEPT !.handle = "stale"]
                 ELSE client
    /\ prevIndex' = store.content
    /\ UNCHANGED <<segVars, chunkFile, docs, resp>>

\* main, lines 44-47: create_collection raises when the collection exists
BuildCreate ==
    /\ buildPc = "deleted"
    /\ IF store.exists
       THEN /\ buildPc' = "failed"
            /\ UNCHANGED store
       ELSE /\ buildPc' = "created"
            /\ store' = File(<<>>)
    /\ UNCHANGED <<segVars, chunkFile, docs, client, resp, prevIndex>>

\* main, lines 49-77: encode, then one collection.add of all the entries; the
\* provider may fail, and add raises for an empty list of ids
BuildAdd ==
    /\ buildPc = "created"
    /\ \E provider_ok \in BOOLEAN :
          IF provider_ok /\ docs # <<>>
          THEN /\ store' = File(store.content \o index_entries(docs))
               /\ buildPc' = "done"
          ELSE /\ buildPc' = "failed"
               /\ UNCHANGED store
    /\ UNCHANGED <<segVars, chunkFile, docs, client, resp, prevIndex>>

\* the build process ends
BuildExit ==
    /\ buildPc \in {"done", "failed"}
    /\ buildPc' = "idle"
    /\ docs' = <<>>
    /\ prevIndex' = <<>>
    /\ UNCHANGED <<segVars, chunkFile, store, client, resp>>

-----------------------------------------------------------------------------
(* retrieval/retrieve.py *)

Queries == {"", "q55", "q56"}

\* the position in es of an entry nearest to q_emb (the first of them)
Nearest(es, q_emb) ==
    CHOOSE x \in 1..Len(es) :
        /\ \A y \in 1..Len(es) :
              distance(es[x].embedding, q_emb) <= distance(es[y].embedding, q_emb)
        /\ \A y \in 1..(x - 1) :
              distance(es[y].embedding, q_emb) # distance(es[x].embedding, q_emb)

Without(es, x) == SubSeq(es, 1, x - 1) \o SubSeq(es, x + 1, Len(es))

RECURSIVE NearestFirst(_, _, _)
NearestFirst(es, q_emb, n) ==
    IF n = 0 \/ es = <<>> THEN <<>>
    ELSE <<es[Nearest(es, q_emb)]>>
         \o NearestFirst(Without(es, Nearest(es, q_emb)), q_emb, n - 1)

\* what col.query returns for the entries it found, with include=["documents",
\* "metadatas", "distances"]
QueryResult(es, q_emb) ==
    [i \in 1..Len(es) |->
        [ id       |-> es[i].id,
          distance |-> distance(es[i].embedding, q_emb),
          document |-> es[i].document,
          metadata |-> es[i].metadata ]]

col_query_default_n(es, q_emb, k) ==
    QueryResult(NearestFirst(es, q_emb, 10), q_emb)

\* retrieve, lines 25-29: col.query(query_embeddings=[q_emb], n_results=k), the
\* n_results entries nearest to q_emb (all of them when there are fewer),
\* nearest first
col_query(es, q_emb, k) == QueryResult(NearestFirst(es, q_emb, k), q_emb)

retrieve_results_reversed(res) ==
    [i \in 1..Len(res) |->
        [ id       |-> res[Len(res) + 1 - i].id,
          distance |-> res[Len(res) + 1 - i].distance,
          text     |-> res[Len(res) + 1 - i].document,
          meta     |-> res[Len(res) + 1 - i].metadata ]]

\* retrieve, lines 31-39
retrieve_results(res) ==
    [i \in 1..Len(res) |->
        [ id       |-> res[i].id,
          distance |-> res[i].distance,
          text     |-> res[i].document,
          meta     |-> res[i].metadata ]]

-----------------------------------------------------------------------------
(* rag/spec_rag.py, rag/llm_rag.py *)

THRESHOLD_SPEC == 40
THRESHOLD_LLM == 55

should_refuse_ge(results) ==
    IF results = <<>> THEN TRUE ELSE results[1].distance >= THRESHOLD_SPEC

\* spec_rag.should_refuse
should_refuse(results) ==
    IF results = <<>> THEN TRUE ELSE results[1].distance > THRESHOLD_SPEC

\* llm_rag._should_refuse
llm_should_refuse(results) ==
    IF results = <<>> THEN TRUE ELSE results[1].distance > THRESHOLD_LLM

Paths == {"answer", "answer_with_llm"}

NoResp == [kind |-> "none"]

Raised(c, cause) ==
    [kind |-> "error", cause |-> cause, path |-> c.path, q |-> c.q, k |-> c.k,
     results |-> <<>>, refused |-> FALSE]

Returned(c, results, refused) ==
    [kind |-> "ok", cause |-> "", path |-> c.path, q |-> c.q, k |-> c.k,
     results |-> results, refused |-> refused]

\* answer / answer_with_llm call retrieve; retrieve, lines 19-20: get_collection
\* raises when the collection does not exist
ClientStart ==
    /\ client.pc = "idle"
    /\ \E path \in Paths, q \in Queries, k \in 1..MaxK :
          LET c == [pc |-> "opened", path |-> path, q |-> q, k |-> k, handle |-> "valid"] IN
          IF store.exists
          THEN /\ client' = c
               /\ UNCHANGED resp
          ELSE /\ client' = [c EXCEPT !.pc = "returned"]
               /\ resp' = Raised(c, "collection")
    /\ UNCHANGED <<segVars, chunkFile, docs, buildPc, store, prevIndex>>

ClientQuery_failure_as_refusal ==
    /\ client.pc = "opened"
    /\ client' = [client EXCEPT !.pc = "returned"]
    /\ \E provider_ok \in BOOLEAN, llm_ok \in BOOLEAN :
          IF ~provider_ok THEN resp' = Returned(client, <<>>, TRUE)
          ELSE IF client.handle = "stale" \/ ~store.exists
          THEN resp' = Raised(client, "collection")
          ELSE LET q_emb == encode(client.q)
                   results == retrieve_results(col_query(store.content, q_emb, client.k))
               IN IF client.path = "answer"
                  THEN resp' = Returned(client, results, should_refuse(results))
                  ELSE IF llm_should_refuse(results)
                  THEN resp' = Returned(client, results, TRUE)
                  ELSE IF llm_ok
                  THEN resp' = Returned(client, results, FALSE)
                  ELSE resp' = Raised(client, "llm")
    /\ UNCHANGED <<segVars, chunkFile, docs, buildPc, store, prevIndex>>

\* retrieve, lines 22-39, then the gate of the path and its answer: the query
\* embedding (the provider may fail), col.query on the handle, the result
\* list; answer_with_llm calls the LLM when the gate accepts (it may fail)
ClientQuery ==
    /\ client.pc = "opened"
    /\ client' = [client EXCEPT !.pc = "returned"]
    /\ \E provider_ok \in BOOLEAN, llm_ok \in BOOLEAN :
          IF ~provider_ok THEN resp' = Raised(client, "embedding")
          ELSE IF client.handle = "stale" \/ ~store.exists
          THEN resp' = Raised(client, "collection")
          ELSE LET q_emb == encode(client.q)
                   results == retrieve_results(col_query(store.content, q_emb, client.k))
               IN IF client.path = "answer"
                  THEN resp' = Returned(client, results, should_refuse(results))
                  ELSE IF llm_should_refuse(results)
                  THEN resp' = Returned(client, results, TRUE)
                  ELSE IF llm_ok
                  THEN resp' = Returned(client, results, FALSE)
                  ELSE resp' = Raised(client, "llm")
    /\ UNCHANGED <<segVars, chunkFile, docs, buildPc, store, prevIndex>>

\* dash_app.on_search, lines 172-183: what the page shows for the outcome of
\* answer_with_llm
RAG_CALL_FAILED == "RAG call failed"
REFUSED_STATUS == "Refused (low-confidence retrieval). Try rephrasing."
ANSWERED_STATUS == "Answered from retrieved WCAG 2.2 sources."

on_search(r) ==
    IF r.kind = "error" THEN RAG_CALL_FAILED
    ELSE IF r.refused THEN REFUSED_STATUS
    ELSE ANSWERED_STATUS

\* the caller has the outcome; the next question can be asked
ClientReturn ==
    /\ client.pc = "returned"
    /\ client' = [pc |-> "idle"]
    /\ resp' = NoResp
    /\ UNCHANGED <<segVars, chunkFile, docs, buildPc, store, prevIndex>>

-----------------------------------------------------------------------------
(* The index builder and questions being answered, side by side *)

Init ==
    /\ doc = Missing
    /\ ordered = <<>>
    /\ chunks = <<>>
    /\ segPc = "done"
    /\ chunkFile = Missing
    /\ docs = <<>>
    /\ buildPc = "idle"
    /\ store = Missing
    /\ client = [pc |-> "idle"]
    /\ resp = NoResp
    /\ prevIndex = <<>>

Next ==
    \/ WriteChunkFile
    \/ BuildLoad
    \/ BuildDelete
    \/ BuildCreate
    \/ BuildAdd
    \/ BuildExit
    \/ ClientStart
    \/ ClientQuery
    \/ ClientReturn

Spec == Init /\ [][Next]_vars

-----------------------------------------------------------------------------
(* The segmenter on every document of the bounds, and the load of its output *)

InitSegment ==
    /\ \/ doc = Missing
       \/ \E n \in 0..MaxNodes : \E pv \in ParentVectors(n) : \E kinds \in [1..n -> NodeKinds] :
              doc = File(DocOf(n, kinds, pv))
    /\ ordered = <<>>
    /\ chunks = <<>>
    /\ segPc = "start"
    /\ chunkFile = Missing
    /\ docs = <<>>
    /\ buildPc = "idle"
    /\ store = Missing
    /\ client = [pc |-> "idle"]
    /\ resp = NoResp
    /\ prevIndex = <<>>

NextSegment == ParseSpecMain \/ BuildLoad

SpecSegment == InitSegment /\ [][NextSegment]_vars

-----------------------------------------------------------------------------
(* The segmenter over documents of nested sections: containers with and
   without an id, criterion headings with and without an id, and headings of
   the conformance section in the labeled and in the fallback form *)

SectionKinds ==
    { Node("section", "sec", <<>>),
      Node("div", "", <<>>),
      Node("h3", "sc-a", <<SC_PHRASE, "1.2.3", WORD>>),
      Node("h4", "", <<SC_PHRASE, "1.2.4", WORD>>),
      Node("h4", "", <<SC_PHRASE, "5.2.1", WORD>>),
      Node("h3", "", <<"5.2.1", WORD>>) }

InitSections ==
    /\ \E n \in 0..MaxNodes : \E pv \in ParentVectors(n) : \E kinds \in [1..n -> SectionKinds] :
              doc = File(DocOf(n, kinds, pv))
    /\ ordered = <<>>
    /\ chunks = <<>>
    /\ segPc = "start"
    /\ chunkFile = Missing
    /\ docs = <<>>
    /\ buildPc = "idle"
    /\ store = Missing
    /\ client = [pc |-> "idle"]
    /\ resp = NoResp
    /\ prevIndex = <<>>

SpecSections == InitSections /\ [][NextSegment]_vars

-----------------------------------------------------------------------------
(* The segmenter and the index builder started with or without their input
   files, over an index of an earlier build or none *)

InitMissingInput ==
    /\ doc \in {Missing, File(<<>>)}
    /\ ordered = <<>>
    /\ chunks = <<>>
    /\ segPc = "start"
    /\ chunkFile \in {Missing} \cup {ChunkFileOf(cs) : cs \in ChunkLists}
    /\ docs = <<>>
    /\ buildPc = "idle"
    /\ store \in {Missing} \cup
           {File(index_entries(load_jsonl(ChunkFileOf(cs).content))) :
               cs \in ChunkLists \ {<<>>}}
    /\ client = [pc |-> "idle"]
    /\ resp = NoResp
    /\ prevIndex = <<>>

NextMissingInput ==
    \/ ParseSpecMain
    \/ BuildLoad
    \/ BuildDelete
    \/ BuildCreate
    \/ BuildAdd
    \/ BuildExit

SpecMissingInput == InitMissingInput /\ [][NextMissingInput]_vars

-----------------------------------------------------------------------------
(* Claims about the index, the retriever and the gates *)

\* the step with which an answering call returns or raises
CallEnds == client.pc # "returned" /\ client'.pc = "returned"

\* the failure of an external provider, which is not the index's doing
ProviderFailed(r) == r.kind = "error" /\ r.cause \in {"embedding", "llm"}

\* C1: a returned response is a refusal exactly when the result list is empty
\* or the distance of its first result is strictly greater than the threshold
\* of the path, 0.40 (answer) or 0.55 (answer_with_llm); no other result counts.
C1_GateDecision ==
    resp.kind = "ok" =>
        (resp.refused <=>
            \/ resp.results = <<>>
            \/ resp.results[1].distance >
                   (IF resp.path = "answer" THEN THRESHOLD_SPEC ELSE THRESHOLD_LLM))

\* answer accepts a first result at distance 0.40 exactly, with a second result
\* beyond the threshold
C1_Witness ==
    /\ resp.kind = "ok"
    /\ resp.path = "answer"
    /\ Len(resp.results) >= 2
    /\ resp.results[1].distance = THRESHOLD_SPEC
    /\ resp.results[2].distance > THRESHOLD_SPEC
    /\ ~resp.refused

\* C4 (as claimed): a call whose query is empty, or that finds no collection or
\* a collection without entries, returns an empty result list and does not raise.
C4_EmptyCasesReturnEmpty ==
    [][(/\ CallEnds
        /\ ~ProviderFailed(resp')
        /\ \/ client'.q = ""
           \/ ~store.exists
           \/ store.content = <<>>)
       => (resp'.kind = "ok" /\ resp'.results = <<>>)]_vars

\* C5 (as claimed): a call that ends while a rebuild that replaces a built index
\* is running has read a collection that holds the complete previous index or
\* the complete new one.
C5_QueriesSeeCompleteIndex ==
    [][(/\ CallEnds
        /\ ~ProviderFailed(resp')
        /\ buildPc \in {"deleted", "created"}
        /\ prevIndex # <<>>)
       => (/\ resp'.kind = "ok"
           /\ store.exists
           /\ store.content \in {prevIndex, index_entries(docs)})]_vars

\* C7: a returned result list has at most k results and at most as many as the
\* collection it was read from has entries, and no two results have the same id,
\* each being the id of an entry of the collection.
C7_AtMostKResults ==
    [][(CallEnds /\ resp'.kind = "ok")
       => (/\ Len(resp'.results) <= client'.k
           /\ Len(resp'.results) <= Len(store.content)
           /\ \A i, j \in 1..Len(resp'.results) :
                 i # j => resp'.results[i].id # resp'.results[j].id
           /\ \A i \in 1..Len(resp'.results) :
                 \E x \in 1..Len(store.content) :
                     store.content[x].id = resp'.results[i].id)]_vars

\* a query with k = 3 against an index of two entries returned two results
C7_Witness ==
    /\ resp.kind = "ok"
    /\ resp.k = 3
    /\ Len(resp.results) = 2

\* C8: the distances of a returned result list do not decrease along it, so
\* its first result, the one the gates look at, has the least distance.
C8_NonDecreasingDistance ==
    resp.kind = "ok" =>
        /\ \A i, j \in 1..Len(resp.results) :
              i < j => resp.results[i].distance <= resp.results[j].distance
        /\ \A i \in 1..Len(resp.results) :
              resp.results[1].distance <= resp.results[i].distance

\* the nearest entry is not the first entry of the index
C8_Witness ==
    /\ resp.kind = "ok"
    /\ Len(resp.results) = 2
    /\ resp.results[1].id = PyStr("1.2.4")
    /\ resp.results[2].id = PyStr("1.2.3")
    /\ resp.results[1].distance < resp.results[2].distance

\* C9: when a build has succeeded, the collection holds, for every chunk of the
\* chunk file and in its order, one entry with the chunk's id, text and
\* embedding, and no other entry; so it is a function of the chunk file alone
\* and a second build from the same file gives the same entries.
C9_IndexIsChunkFile ==
    buildPc = "done" =>
        /\ store.exists
        /\ docs = load_jsonl(chunkFile.content)
        /\ Len(store.content) = Len(chunkFile.content)
        /\ \A x \in 1..Len(store.content) :
              /\ store.content[x].id = PyStr(chunkFile.content[x].sc_id[2])
              /\ store.content[x].document = PyStr(chunkFile.content[x].text[2])
              /\ store.content[x].embedding = EmbeddingTable[chunkFile.content[x].text[2]]
              /\ store.content[x].metadata.sc_id = store.content[x].id

\* a build has succeeded that replaced an index with an entry whose id or text
\* the chunk file no longer has
C9_Witness ==
    /\ buildPc = "done"
    /\ \E y \in 1..Len(prevIndex) :
          \A x \in 1..Len(docs) :
              prevIndex[y].id # docs[x].sc_id \/ prevIndex[y].document # docs[x].text

NonTextFields ==
    {"doc_set", "source", "normativity", "version", "sc_id", "sc_title", "level", "url"}

\* C10 (as claimed): the metadata of an entry has every non-text field of its
\* chunk, with the chunk's value as a string and "" for None.
C10_MetadataHasAllFields ==
    buildPc = "done" =>
        \A x \in 1..Len(docs) : \A f \in NonTextFields :
            /\ f \in DOMAIN store.content[x].metadata
            /\ store.content[x].metadata[f] # PyNone
            /\ store.content[x].metadata[f] =
                   (IF docs[x][f] = PyNone THEN PyStr("") ELSE docs[x][f])

-----------------------------------------------------------------------------
(* Claims about the segmenter *)

Candidates(d) == {i \in 1..Len(d) : is_sc_node(d, i) # NoMatch}

\* the candidates no earlier candidate shares its identifier with
FirstCandidates(d) ==
    {i \in Candidates(d) :
        \A j \in Candidates(d) : j < i => is_sc_node(d, j)[1] # is_sc_node(d, i)[1]}

\* C2: no two emitted chunks have the same sc_id: not in the chunk list, not in
\* the chunk file, and not in the list the index builder loads (whose sc_ids
\* are the index ids).
C2_DistinctIds ==
    /\ \A x, y \in 1..Len(chunks) : x # y => chunks[x].sc_id # chunks[y].sc_id
    /\ \A x, y \in 1..Len(chunkFile.content) :
          x # y => chunkFile.content[x].sc_id # chunkFile.content[y].sc_id
    /\ \A x, y \in 1..Len(docs) : x # y => docs[x].sc_id # docs[y].sc_id

\* a document with two candidates of one identifier and a candidate of another
\* has been segmented and its chunk file loaded
C2_Witness ==
    /\ segPc = "done"
    /\ buildPc = "loaded"
    /\ Cardinality(Candidates(doc.content)) = 3
    /\ Len(docs) = 2

\* C3 (as claimed): the text of a chunk holds nothing of an element at or after
\* the next recognized chunk head or the next h2 after the chunk's head.
C3_TextEndsBeforeNextHead ==
    segPc = "done" =>
        \A x \in 1..Len(chunks) :
            \A t \in 1..Len(chunks[x].text[2]) :
                chunks[x].text[2][t].n < StopAt(doc.content, ordered[x].tag + 1)

\* C6: the chunk of an identifier is built from the first candidate with that
\* identifier (title, anchor, body), the chunks are in the order of the first
\* occurrences, and the chunk file and the loaded list keep that order.
C6_FirstOccurrenceWins ==
    (segPc = "done" /\ doc.exists) =>
        LET d == doc.content IN
        /\ Len(chunks) = Cardinality(FirstCandidates(d))
        /\ \A x \in 1..Len(chunks) :
              \E i \in FirstCandidates(d) :
                  /\ Cardinality({j \in FirstCandidates(d) : j < i}) = x - 1
                  /\ chunks[x].sc_id = PyStr(is_sc_node(d, i)[1])
                  /\ chunks[x].sc_title = PyStr(is_sc_node(d, i)[2])
                  /\ chunks[x].url = UrlFor(anchor_for(d, i))
                  /\ chunks[x].text = PyStr(collect_until_next_sc(d, i))
        /\ chunkFile.exists
        /\ Len(chunkFile.content) = Len(chunks)
        /\ \A x \in 1..Len(chunks) :
              /\ chunkFile.content[x].sc_id = <<"string", chunks[x].sc_id[2]>>
              /\ chunkFile.content[x].sc_title = <<"string", chunks[x].sc_title[2]>>
        /\ (buildPc = "loaded" => docs = chunks)

\* a later candidate repeats the identifier of an earlier one with another
\* anchor, a chunk of another identifier comes first, and the file is loaded
C6_Witness ==
    /\ segPc = "done"
    /\ buildPc = "loaded"
    /\ Len(docs) = 2
    /\ docs[1].sc_id = PyStr("1.2.4")
    /\ \E i, j \in Candidates(doc.content) :
          /\ i < j
          /\ is_sc_node(doc.content, i)[1] = is_sc_node(doc.content, j)[1]
          /\ anchor_for(doc.content, i) # anchor_for(doc.content, j)
-----------------------------------------------------------------------------
(* Claims about missing input files *)

\* C11: a segmenter run that finds no raw document leaves the chunk file as it
\* is (none is written); a build that finds no chunk file fails at once and
\* leaves the persisted collection as it is, and a failed build does nothing
\* to the collection afterwards.
C11_MissingInputNoSideEffect ==
    [][/\ (segPc = "start" /\ segPc' = "done" /\ ~doc.exists)
            => (chunkFile' = chunkFile /\ chunks' = <<>>)
       /\ (buildPc = "idle" /\ buildPc' # "idle" /\ ~chunkFile.exists)
            => (buildPc' = "failed" /\ store' = store)
       /\ (buildPc = "failed" => store' = store)]_vars

\* neither input file exists, both programs have run, and the index of the
\* earlier build is still there
C11_Witness ==
    /\ ~doc.exists
    /\ segPc = "done"
    /\ ~chunkFile.exists
    /\ buildPc = "failed"
    /\ store.exists
    /\ store.content # <<>>
-----------------------------------------------------------------------------
(* Claims about failures while answering *)

GateOf(path, results) ==
    IF path = "answer" THEN should_refuse(results) ELSE llm_should_refuse(results)

\* C12: when a call ends, a failure of the embedding provider, of the index
\* lookup or of the LLM is an error outcome that is not a refusal (the page
\* shows it as a failed call, not as a refusal or an answer), and a refused
\* response comes only from the gate's decision on the result list that the
\* lookup returned.
C12_FailureIsNotRefusal ==
    [][(client.pc # "returned" /\ client'.pc = "returned") =>
          /\ resp'.kind \in {"ok", "error"}
          /\ resp'.kind = "error" =>
                /\ ~resp'.refused
                /\ on_search(resp') \notin {REFUSED_STATUS, ANSWERED_STATUS}
          /\ resp'.refused =>
                /\ resp'.kind = "ok"
                /\ on_search(resp') = REFUSED_STATUS
                /\ client.pc = "opened"
                /\ client.handle = "valid"
                /\ store.exists
                /\ resp'.results =
                     retrieve_results(col_query(store.content, encode(client.q), client.k))
                /\ GateOf(client.path, resp'.results)]_vars

\* the embedding provider failed for a question over a filled index
C12_Witness ==
    /\ client.pc = "returned"
    /\ client.path = "answer_with_llm"
    /\ resp.kind = "error"
    /\ resp.cause = "embedding"
    /\ store.exists
    /\ store.content # <<>>
-----------------------------------------------------------------------------
(* Claims about reserved identifiers and anchors *)

\* the text begins with the label, an identifier and a title
LabeledForm(txt) == Len(txt) >= 3 /\ txt[1].k = SC_PHRASE /\ txt[2].k \in DottedIds

\* the heading candidates not in the labeled form whose first identifier
\* begins with "5."
ReservedFallback(d) ==
    {i \in 1..Len(d) :
        /\ d[i].tag \in HeadingTags
        /\ ~LabeledForm(get_text(d, i))
        /\ FirstId(get_text(d, i), 1) # 0
        /\ startswith5(get_text(d, i)[FirstId(get_text(d, i), 1)].k)}

\* C13, as stated: no emitted chunk has an identifier that begins with "5.".
C13_NoReservedChunk ==
    segPc = "done" =>
        /\ \A x \in 1..Len(chunks) : ~startswith5(chunks[x].sc_id[2])
        /\ \A x \in 1..Len(chunkFile.content) : ~startswith5(chunkFile.content[x].sc_id[2])

\* C13, amended: a heading candidate that is not in the labeled form and
\* whose first identifier begins with "5." is skipped: it is the head of no
\* chunk, and a chunk whose identifier begins with "5." has a head in the
\* labeled form.
C13_ReservedFallbackSkipped ==
    (segPc = "done" /\ doc.exists) =>
        /\ Len(chunks) = Len(ordered)
        /\ \A x \in 1..Len(chunks) :
              startswith5(chunks[x].sc_id[2]) =>
                 LabeledForm(get_text(doc.content, ordered[x].tag))
        /\ \A i \in ReservedFallback(doc.content) :
              \A x \in 1..Len(ordered) : ordered[x].tag # i

\* a document with a fallback heading of the conformance section and a
\* labeled one has been segmented
C13_Witness ==
    /\ segPc = "done"
    /\ doc.exists
    /\ ReservedFallback(doc.content) # {}
    /\ \E x \in 1..Len(chunks) : startswith5(chunks[x].sc_id[2])

\* the url of chunk x is anchored at the id of element a
AnchoredAt(x, a) == chunks[x].url = PyStr(<<BASE_URL, "#", doc.content[a].id>>)

DefaultUrl(x) == chunks[x].url = PyStr(<<BASE_URL>>)

\* C14, as stated: the url is anchored at the head's id, else at the id of an
\* ancestor that has one; the default url only when the head and all its
\* ancestors have no id.
C14_AnchorOfHeadOrAncestor ==
    (segPc = "done" /\ doc.exists) =>
        \A x \in 1..Len(chunks) :
            LET h == ordered[x].tag
                withId == {a \in Ancestors(doc.content, h) : doc.content[a].id # ""}
            IN /\ doc.content[h].id # "" => AnchoredAt(x, h)
               /\ (doc.content[h].id = "" /\ withId # {}) => \E a \in withId : AnchoredAt(x, a)
               /\ DefaultUrl(x) => (doc.content[h].id = "" /\ withId = {})

\* C14, amended: the url is anchored at the head's id, else at the id of the
\* head's parent when the parent has one; it is the default url exactly when
\* neither the head nor its parent has an id.
C14_AnchorOfHeadOrParent ==
    (segPc = "done" /\ doc.exists) =>
        \A x \in 1..Len(chunks) :
            LET h == ordered[x].tag
                par == doc.content[h].parent
                parHasId == par # 0 /\ doc.content[par].id # ""
            IN /\ doc.content[h].id # "" => AnchoredAt(x, h)
               /\ (doc.content[h].id = "" /\ parHasId) => AnchoredAt(x, par)
               /\ DefaultUrl(x) <=> (doc.content[h].id = "" /\ ~parHasId)

\* a head without an id directly inside a section with an id has been made a
\* chunk, anchored at the section
C14_Witness ==
    /\ segPc = "done"
    /\ doc.exists
    /\ \E x \in 1..Len(chunks) :
          LET h == ordered[x].tag
              par == doc.content[h].parent
          IN /\ doc.content[h].id = ""
             /\ par # 0
             /\ doc.content[par].id # ""
             /\ AnchoredAt(x, par)
====
